---- MODULE Spec2Model ----
(***************************************************************************)
(* State-machine model of the WebRTC client/server with ROS2 publishing:   *)
(*   - the signaling relay (WebSocket server with the clients Map),        *)
(*   - the compressed-image publisher (ROS2ImagePublisherCompressed).      *)
(* Each component has its own next-state relation and specification; the   *)
(* variables of the other components stay as constructed.                  *)
(***************************************************************************)
EXTENDS Integers, Sequences, FiniteSets, TLC

(***************************************************************************)
(* Bounds of the model.                                                    *)
(***************************************************************************)
\* number of WebSocket connections the relay sees during a run
MaxConns == 2

(***************************************************************************)
(* JavaScript values.                                                      *)
(***************************************************************************)
Undefined == "<undefined>"
Null == "<null>"

\* JavaScript truthiness of a string-or-missing value: undefined, null and
\* the empty string are falsy.
Truthy(v) == v \notin {Undefined, Null, ""}

(***************************************************************************)
(* The signaling relay.                                                    *)
(***************************************************************************)
VARIABLES
    clients,      \* the Map id -> socket, as its entries in insertion order
    sockState,    \* per connection: "idle" (not yet connected), "open", "closed"
    assignedId,   \* per connection: the id drawn for it on 'connection'
    relayUp,      \* FALSE once an exception escaped an event listener
    relayOp,      \* the handler that ran last, with what it was given
    delivered     \* the frames the last handler passed to wsClient.send

relayVars == <<clients, sockState, assignedId, relayUp, relayOp, delivered>>

Sockets == 1..MaxConns

\* What Math.random().toString(36).substring(2, 15) can produce: a short
\* base-36 string, the empty string when Math.random() returns 0.  Nothing
\* compares the draw with the ids in use.
IdPool == {"", "a1", "b2"}

NoId == "<none>"

\* ---- Map operations, on the entries in insertion order ----
MapHas(map, key) == \E i \in 1..Len(map) : map[i].k = key

\* Map.prototype.get for a key the Map has (for any other key it returns
\* undefined, which MapHas decides)
MapGet(map, key) == map[CHOOSE i \in 1..Len(map) : map[i].k = key].v

\* Map.prototype.set: an existing key keeps its position and gets the new
\* value, a new key is appended.
MapSet(map, key, val) ==
    IF MapHas(map, key)
    THEN [i \in 1..Len(map) |-> IF map[i].k = key THEN [k |-> key, v |-> val] ELSE map[i]]
    ELSE Append(map, [k |-> key, v |-> val])

MapDelete(map, key) == SelectSeq(map, LAMBDA e : e.k # key)

\* findClientID: the first key, in iteration order, whose value is val;
\* null when there is none.
findClientIDNeverNull(map, val) ==
    IF \E i \in 1..Len(map) : map[i].v = val
    THEN map[CHOOSE i \in 1..Len(map) :
                /\ map[i].v = val
                /\ \A j \in 1..(i - 1) : map[j].v # val].k
    ELSE IF Len(map) > 0 THEN map[Len(map)].k ELSE Null

findClientID(map, val) ==
    IF \E i \in 1..Len(map) : map[i].v = val
    THEN map[CHOOSE i \in 1..Len(map) :
                /\ map[i].v = val
                /\ \A j \in 1..(i - 1) : map[j].v # val].k
    ELSE Null

\* ---- messages, as JSON.parse sees them ----
\* data: an object with its fields, a primitive (string, number, boolean:
\* reading a property gives undefined, assigning one is silently ignored in
\* sloppy mode), or missing (undefined or null: any property access throws).
DataObjects ==
    [kind : {"object"}, type : {"offer"}, sdp : {"v=0"}, socketID : IdPool \cup {Undefined}]

DataPrimitive == [kind |-> "primitive", type |-> Undefined, sdp |-> Undefined, socketID |-> Undefined]

DataMissing == [kind |-> "undefined", type |-> Undefined, sdp |-> Undefined, socketID |-> Undefined]

Datas == DataObjects \cup {DataPrimitive, DataMissing}

Events == {"webrtc_msg", "ping"}

Messages ==
    [parses : {TRUE}, event : Events, socketID : IdPool \cup {Undefined}, data : Datas]
    \cup {[parses |-> FALSE, event |-> Undefined, socketID |-> Undefined, data |-> DataMissing]}

\* ---- send (lines 25-31): one frame {event, data} to one socket ----
sendWithTarget(wsClient, type, body) ==
    [to |-> wsClient, frame |-> [event |-> type, data |-> body, socketID |-> body.socketID]]

send(wsClient, type, body) ==
    [to |-> wsClient, frame |-> [event |-> type, data |-> body]]

\* The requested socket id (lines 60-69): the root field when truthy, else
\* data.socketID.
requestedThrows(m) == ~Truthy(m.socketID) /\ m.data.kind = "undefined"

requestedSocketID(m) == IF Truthy(m.socketID) THEN m.socketID ELSE m.data.socketID

\* data['socketID'] = socketClientID (line 78)
inject(data, socketClientID) ==
    IF data.kind = "object" THEN [data EXCEPT !.socketID = socketClientID] ELSE data

\* The 'webrtc_msg' case (lines 75-86): the frames handed to send.
forwardToAll(map, socketID, data, socketClientID) ==
    [i \in 1..Len(map) |-> send(map[i].v, "webrtc_msg", inject(data, socketClientID))]

forwardTwice(map, socketID, data, socketClientID) ==
    IF MapHas(map, socketID)
    THEN <<send(MapGet(map, socketID), "webrtc_msg", inject(data, socketClientID)),
           send(MapGet(map, socketID), "webrtc_msg", inject(data, socketClientID))>>
    ELSE <<>>

forward(map, socketID, data, socketClientID) ==
    IF MapHas(map, socketID)
    THEN <<send(MapGet(map, socketID), "webrtc_msg", inject(data, socketClientID))>>
    ELSE <<>>

\* onMessage as a function of the registry, the socket and the message:
\* whether an exception leaves the handler, and what is sent.
onMessageThrows(m) ==
    \/ ~m.parses                                              \* JSON.parse, line 53
    \/ requestedThrows(m)                                     \* data.socketID, line 68
    \/ m.event = "webrtc_msg" /\ m.data.kind = "undefined"    \* data['socketID'] =, line 78

onMessageSends(map, socket, m) ==
    IF onMessageThrows(m) \/ m.event # "webrtc_msg"
    THEN <<>>
    ELSE forward(map, requestedSocketID(m), m.data, findClientID(map, socket))

NoOp == [op |-> "none", socket |-> 0, msg |-> CHOOSE m \in Messages : ~m.parses,
         before |-> <<>>, threw |-> FALSE]

RelayInit ==
    /\ clients = <<>>
    /\ sockState = [s \in Sockets |-> "idle"]
    /\ assignedId = [s \in Sockets |-> NoId]
    /\ relayUp = TRUE
    /\ relayOp = NoOp
    /\ delivered = <<>>

\* wss.on('connection') (lines 11-22)
connectionSet(socket, id) ==
    clients' = MapSet(clients, id, socket)

connection(socket) ==
    /\ relayUp
    /\ sockState[socket] = "idle"
    /\ \E id \in IdPool :
         /\ connectionSet(socket, id)
         /\ assignedId' = [assignedId EXCEPT ![socket] = id]
    /\ sockState' = [sockState EXCEPT ![socket] = "open"]
    /\ relayOp' = [NoOp EXCEPT !.op = "connection", !.socket = socket, !.before = clients]
    /\ delivered' = <<>>
    /\ UNCHANGED relayUp

\* clearClient (lines 42-47)
clearClient(map, socket) == MapDelete(map, findClientID(map, socket))

\* socket.on('close') -> onClose (lines 99-102)
onClose(socket) ==
    /\ relayUp
    /\ sockState[socket] = "open"
    /\ clients' = clearClient(clients, socket)
    /\ sockState' = [sockState EXCEPT ![socket] = "closed"]
    /\ relayOp' = [NoOp EXCEPT !.op = "close", !.socket = socket, !.before = clients]
    /\ delivered' = <<>>
    /\ UNCHANGED <<assignedId, relayUp>>

\* socket.on('message') -> onMessage (lines 49-97).  Nothing catches what
\* the listener throws: the exception leaves the event loop and the process
\* ends.
onMessage(socket) ==
    /\ relayUp
    /\ sockState[socket] = "open"
    /\ \E m \in Messages :
         /\ delivered' = onMessageSends(clients, socket, m)
         /\ relayUp' = ~onMessageThrows(m)
         /\ relayOp' = [op |-> "message", socket |-> socket, msg |-> m,
                        before |-> clients, threw |-> onMessageThrows(m)]
    /\ UNCHANGED <<clients, sockState, assignedId>>

(***************************************************************************)
(* Properties of the signaling relay.                                      *)
(***************************************************************************)
Registered(map, socket) == \E i \in 1..Len(map) : map[i].v = socket

HandledMessage == relayOp.op = "message"

IsHandshake(m) == m.parses /\ m.event = "webrtc_msg"

\* a handshake message whose requested socket id can be read
HasTarget(m) == IsHandshake(m) /\ ~requestedThrows(m)

Frames == {delivered[i] : i \in 1..Len(delivered)}

\* C1: every handshake message forwarded to a registered target carries, in
\* data.socketID, the id under which the sending connection is registered at
\* that moment (never null, never the value the sender wrote).
C1_SenderIdInjected ==
    (HandledMessage /\ HasTarget(relayOp.msg)
        /\ MapHas(relayOp.before, requestedSocketID(relayOp.msg)))
    => \A d \in Frames :
          /\ d.frame.data.socketID = assignedId[relayOp.socket]
          /\ MapHas(relayOp.before, d.frame.data.socketID)
          /\ MapGet(relayOp.before, d.frame.data.socketID) = relayOp.socket

C3_UniqueIds ==
    /\ \A s \in Sockets : sockState[s] = "open" =>
          /\ Cardinality({i \in 1..Len(clients) : clients[i].v = s}) = 1
          /\ findClientID(clients, s) = assignedId[s]
    /\ \A s, t \in Sockets :
          (s # t /\ sockState[s] = "open" /\ sockState[t] = "open")
          => assignedId[s] # assignedId[t]

C5_AtMostOnceToTarget ==
    HandledMessage
    => /\ Len(delivered) <= 1
       /\ \A d \in Frames :
             /\ HasTarget(relayOp.msg)
             /\ MapHas(relayOp.before, requestedSocketID(relayOp.msg))
             /\ d.to = MapGet(relayOp.before, requestedSocketID(relayOp.msg))

C5_Witness ==
    /\ HandledMessage
    /\ Len(relayOp.before) = 2
    /\ Len(delivered) = 1
    /\ delivered[1].to # relayOp.socket

\* C6: a close removes exactly the closing connection's entry, and from then
\* on a handshake message addressed to the id of a closed connection is
\* dropped.
C6_ClosedIdDropped ==
    /\ relayOp.op = "close" =>
          clients = SelectSeq(relayOp.before, LAMBDA e : e.v # relayOp.socket)
    /\ (HandledMessage /\ HasTarget(relayOp.msg)
          /\ \E s \in Sockets :
                /\ sockState[s] = "closed"
                /\ assignedId[s] = requestedSocketID(relayOp.msg))
       => delivered = <<>>

\* C7: closing a connection the registry has no entry for leaves the
\* registry as it was and raises nothing.
C7_UnregisterUnknownNoOp ==
    (relayOp.op = "close" /\ ~Registered(relayOp.before, relayOp.socket))
    => /\ clients = relayOp.before
       /\ relayUp

C7_Witness ==
    /\ relayOp.op = "close"
    /\ ~Registered(relayOp.before, relayOp.socket)
    /\ Len(relayOp.before) >= 1
    /\ clients = relayOp.before

\* C8: a message whose event is not webrtc_msg is ignored, whatever its
\* other fields: nothing is sent, nothing is thrown, the registry is
\* unchanged.
C8_UnknownEventIgnored ==
    (HandledMessage /\ relayOp.msg.parses /\ relayOp.msg.event # "webrtc_msg")
    => /\ delivered = <<>>
       /\ ~relayOp.threw
       /\ relayUp
       /\ clients = relayOp.before

\* C9: an unparseable message, or a handshake message without a data
\* object, is discarded without an exception leaving the handler; the relay
\* keeps running with the sender registered as before.
C9_MalformedDiscarded ==
    (HandledMessage
        /\ (~relayOp.msg.parses
            \/ (relayOp.msg.event = "webrtc_msg" /\ relayOp.msg.data.kind # "object")))
    => /\ ~relayOp.threw
       /\ relayUp
       /\ delivered = <<>>
       /\ clients = relayOp.before


(***************************************************************************)
(* The compressed-image publisher (ROS2ImagePublisherCompressed).          *)
(***************************************************************************)
VARIABLES
    phase,               \* main(): "constructed", "initialized", "serving", "exited"
    isInitialized,
    publisherSet,        \* this.publisher is not null
    isProcessing,
    frameDropCount,
    lastPublishTime,
    minPublishInterval,  \* a JavaScript number: finite (num/den), Infinity or NaN
    now,                 \* what Date.now() returns
    immediates,          \* the frames queued by setImmediate, oldest first
    nFrames,             \* image_frame messages received so far
    nCalls,              \* resetStats and setPublishRate calls so far
    frameOp,             \* what the last call of publishCompressedImageFrame did
    win                  \* the frames handled since the last accepted frame

consumerVars == <<phase, isInitialized, publisherSet, isProcessing, frameDropCount,
                  lastPublishTime, minPublishInterval, now, immediates,
                  nFrames, nCalls, frameOp, win>>

\* image_frame messages the publisher receives during a run
MaxFrames == 5
\* resetStats and setPublishRate calls during a run
MaxCalls == 1
\* setImmediate callbacks that may be pending at once
MaxPending == 1
\* milliseconds of Date.now() a run covers
MaxElapsed == 110
\* Date.now() when the process starts: an epoch time, far more than any interval
StartTime == 1000

\* how far Date.now() moves between two events, in ms
ClockSteps == {49, 50, 51}

\* this.minPublishInterval = 100 (constructor)
DefaultMinPublishInterval == 100
\* the floor of Math.max(33, 1000 / fps)
FloorInterval == 33

Num(n, d) == [k |-> "num", num |-> n, den |-> d]
Infinity == [k |-> "inf", num |-> 0, den |-> 1]
NaN == [k |-> "nan", num |-> 0, den |-> 1]

\* x < y for an integer x and a JavaScript number y
LessThan(x, y) ==
    CASE y.k = "nan" -> FALSE
      [] y.k = "inf" -> TRUE
      [] OTHER -> x * y.den < y.num

\* the arguments setPublishRate is called with: integers, and NaN for a
\* missing or non-numeric argument
FpsArgs == {Num(f, 1) : f \in {-1, 0, 10, 30, 40}} \cup {NaN}

\* Math.max(33, 1000 / fps)
publishInterval(fps) ==
    CASE fps.k = "nan" -> NaN
      [] fps.num = 0 -> Infinity
      [] fps.num < 0 -> Num(FloorInterval, 1)
      [] OTHER -> IF 1000 > FloorInterval * fps.num
                  THEN Num(1000, fps.num)
                  ELSE Num(FloorInterval, 1)

\* frame payloads: "jpeg" decodes; "bad" makes the try block throw (no data
\* object, or imageData that Buffer.from rejects)
FrameKinds == {"jpeg", "bad"}

\* WebSocket messages: unparseable text, another type, an image_frame
WsMessages == {"garbage", "other"} \cup FrameKinds

NoWindow == [open |-> FALSE, start |-> 0, interval |-> NaN, recv |-> 0, acc |-> 0,
             pub |-> 0, drop |-> 0, drop0 |-> 0, clean |-> TRUE, firstOk |-> TRUE]

NoFrameOp ==
    [outcome |-> "none", frame |-> "none", limited |-> FALSE, afterFailure |-> FALSE]

ConsumerInit ==
    /\ phase = "constructed"
    /\ isInitialized = FALSE
    /\ publisherSet = FALSE
    /\ isProcessing = FALSE
    /\ frameDropCount = 0
    /\ lastPublishTime = 0
    /\ minPublishInterval = Num(DefaultMinPublishInterval, 1)
    /\ now = StartTime
    /\ immediates = <<>>
    /\ nFrames = 0
    /\ nCalls = 0
    /\ frameOp = NoFrameOp
    /\ win = NoWindow

\* process.exit, after initialize failed or after shutdown: the object and the
\* pending callbacks are gone.
Exited ==
    /\ phase' = "exited"
    /\ isInitialized' = FALSE
    /\ publisherSet' = FALSE
    /\ isProcessing' = FALSE
    /\ frameDropCount' = 0
    /\ lastPublishTime' = 0
    /\ minPublishInterval' = Num(DefaultMinPublishInterval, 1)
    /\ now' = StartTime
    /\ immediates' = <<>>
    /\ nFrames' = 0
    /\ nCalls' = 0
    /\ frameOp' = NoFrameOp
    /\ win' = NoWindow

\* Date.now() moves on between two events
Tick ==
    /\ phase = "serving"
    /\ \E d \in ClockSteps :
         /\ now + d <= StartTime + MaxElapsed
         /\ now' = now + d
    /\ UNCHANGED <<phase, isInitialized, publisherSet, isProcessing, frameDropCount,
                   lastPublishTime, minPublishInterval, immediates,
                   nFrames, nCalls, frameOp, win>>

\* initialize (lines 17-48), awaited by main: it sets up the node and the
\* publisher, or throws and main exits the process
initialize ==
    /\ phase = "constructed"
    /\ \E ok \in BOOLEAN :
         IF ok
         THEN /\ publisherSet' = TRUE
              /\ isInitialized' = TRUE
              /\ phase' = "initialized"
              /\ UNCHANGED <<isProcessing, frameDropCount, lastPublishTime,
                             minPublishInterval, now, immediates, nFrames, nCalls, frameOp, win>>
         ELSE Exited

\* setupWebSocketServer (lines 50-81), called by main after initialize
setupWebSocketServer ==
    /\ phase = "initialized"
    /\ phase' = "serving"
    /\ UNCHANGED <<isInitialized, publisherSet, isProcessing, frameDropCount,
                   lastPublishTime, minPublishInterval, now, immediates,
                   nFrames, nCalls, frameOp, win>>

\* ws.on('message') (lines 58-71): parse inside try/catch, queue an
\* image_frame with setImmediate, ignore anything else
wsOnMessage ==
    /\ phase = "serving"
    /\ nFrames < MaxFrames
    /\ Len(immediates) < MaxPending
    /\ \E m \in WsMessages :
         IF m \in FrameKinds
         THEN /\ immediates' = Append(immediates, m)
              /\ nFrames' = nFrames + 1
         ELSE UNCHANGED <<immediates, nFrames>>
    /\ UNCHANGED nCalls
    /\ UNCHANGED <<phase, isInitialized, publisherSet, isProcessing, frameDropCount,
                   lastPublishTime, minPublishInterval, now, frameOp, win>>

\* the rate-limit test of line 92
rateLimitedSeconds(t) ==
    LessThan((t - lastPublishTime) * 1000, minPublishInterval)

rateLimited(t) == LessThan(t - lastPublishTime, minPublishInterval)

\* whether the frame handled at time t falls into the window that the last
\* accepted frame opened
InWindow(t) == win.open /\ LessThan(t - win.start, win.interval)

\* publishCompressedImageFrame (lines 83-151), run by a setImmediate
\* callback.  The function has no await: it runs to its end in one turn of
\* the event loop.  ok: whether decoding and
\* publisher.publish go through.
publishOutcome(frame, ok) ==
    IF ~isInitialized \/ ~publisherSet THEN "skipped"
    ELSE IF rateLimited(now) THEN "rate_limited"
    ELSE IF isProcessing THEN "busy"
    ELSE IF frame = "jpeg" /\ ok THEN "published"
    ELSE "failed"

Accepted(o) == o \in {"published", "failed"}

\* the processing flag when the handler returns: an accepted frame sets it at
\* line 105 and the finally clause of lines 148-150 clears it, whether the
\* try block ended normally or in the catch of line 146
processingAfterNoFinally(o) == IF o = "failed" THEN TRUE ELSE FALSE

processingAfterNoClear(o) == TRUE

processingAfter(o) == FALSE

Dropped(o) == o \in {"rate_limited", "busy"}

WindowAfter(o) ==
    IF o = "skipped" THEN win
    ELSE IF InWindow(now)
    THEN [win EXCEPT !.recv = @ + 1,
                     !.acc = @ + (IF Accepted(o) THEN 1 ELSE 0),
                     !.pub = @ + (IF o = "published" THEN 1 ELSE 0),
                     !.drop = @ + (IF Dropped(o) THEN 1 ELSE 0)]
    ELSE IF Accepted(o)
    THEN [open |-> TRUE, start |-> now, interval |-> minPublishInterval,
          recv |-> 1, acc |-> 1, pub |-> IF o = "published" THEN 1 ELSE 0,
          drop |-> 0, drop0 |-> frameDropCount, clean |-> TRUE,
          firstOk |-> (o = "published")]
    ELSE NoWindow

publishCompressedImageFrame ==
    /\ phase = "serving"
    /\ immediates # <<>>
    /\ immediates' = Tail(immediates)
    /\ \E ok \in BOOLEAN :
         LET o == publishOutcome(Head(immediates), ok) IN
         /\ frameDropCount' = IF Dropped(o) THEN frameDropCount + 1 ELSE frameDropCount
         /\ lastPublishTime' = IF Accepted(o) THEN now ELSE lastPublishTime
         /\ isProcessing' = IF Accepted(o) THEN processingAfter(o) ELSE isProcessing
         /\ frameOp' = [outcome |-> o, frame |-> Head(immediates),
                        limited |-> rateLimited(now),
                        afterFailure |-> IF o = "skipped" THEN frameOp.afterFailure
                                         ELSE frameOp.outcome = "failed"
                                              \/ (frameOp.outcome = "skipped"
                                                  /\ frameOp.afterFailure)]
         /\ win' = WindowAfter(o)
    /\ UNCHANGED <<phase, isInitialized, publisherSet, minPublishInterval, now, nFrames, nCalls>>

\* resetStats (lines 168-173)
resetStats ==
    /\ phase = "serving"
    /\ nCalls < MaxCalls
    /\ nCalls' = nCalls + 1
    /\ frameDropCount' = 0
    /\ lastPublishTime' = 0
    /\ win' = [win EXCEPT !.clean = ~win.open]
    /\ UNCHANGED <<phase, isInitialized, publisherSet, isProcessing, minPublishInterval,
                   now, immediates, nFrames, frameOp>>

\* setPublishRate (lines 175-178)
setPublishRate ==
    /\ phase = "serving"
    /\ nCalls < MaxCalls
    /\ nCalls' = nCalls + 1
    /\ \E fps \in FpsArgs : minPublishInterval' = publishInterval(fps)
    /\ win' = [win EXCEPT !.clean = ~win.open]
    /\ UNCHANGED <<phase, isInitialized, publisherSet, isProcessing, frameDropCount,
                   lastPublishTime, now, immediates, nFrames, frameOp>>

\* shutdown (lines 153-166), from the SIGINT/SIGTERM handlers of main
shutdown ==
    /\ phase \in {"initialized", "serving"}
    /\ Exited

(***************************************************************************)
(* Properties of the compressed-image publisher.                           *)
(***************************************************************************)
\* C10 as stated: of the frames handled within one minPublishInterval window
\* that starts at an accepted frame, exactly one is published and all the
\* others are dropped, each drop adding exactly one to frameDropCount.
C10_OnePublishedPerWindow ==
    win.open => /\ win.pub = 1
                /\ win.drop = win.recv - 1
                /\ frameDropCount = win.drop0 + win.drop

\* C10 as the code has it: with no resetStats or setPublishRate call since
\* the window's accepted frame, that frame is the only one accepted in the
\* window (published unless decoding or publishing it fails) and every other
\* frame of the window is dropped, each drop adding exactly one to
\* frameDropCount.
C10_OneAcceptedPerWindow ==
    (win.open /\ win.clean)
    => /\ win.acc = 1
       /\ win.pub = (IF win.firstOk THEN 1 ELSE 0)
       /\ win.drop = win.recv - 1
       /\ frameDropCount = win.drop0 + win.drop

\* 5 frames within 50 ms at minPublishInterval = 100: 1 4 dropped
C10_Witness ==
    /\ win.open /\ win.clean
    /\ win.interval = Num(100, 1)
    /\ win.recv = 5
    /\ win.pub = 1
    /\ win.drop = 4
    /\ now - win.start = 50
    /\ frameOp.outcome = "rate_limited"

(***************************************************************************)
(* Specifications: one per component, the others left as constructed.      *)
(***************************************************************************)
\* C11: a frame handled while isProcessing is set is a busy-drop.  The handler
\* has no await, so the flag set at line 105 is cleared at line 149 within
\* the same turn of the event loop: no handler ever sees it set, and no
\* handled frame ends as a busy-drop.
C11_FlagNeverSeen == ~isProcessing /\ frameOp.outcome # "busy"

\* C12: a failure while decoding or publishing stays inside the handler (the
\* process goes on serving with the processing flag clear), and the frame
\* handled next is refused only by the rate limit: it is never a busy-drop,
\* and once minPublishInterval has passed it is accepted.
C12_FailureContained ==
    /\ frameOp.outcome = "failed" => phase = "serving" /\ ~isProcessing
    /\ frameOp.afterFailure /\ frameOp.outcome # "skipped" =>
         IF frameOp.limited THEN frameOp.outcome = "rate_limited"
         ELSE Accepted(frameOp.outcome)

C12_Witness ==
    /\ frameOp.afterFailure
    /\ frameOp.outcome = "published"
    /\ ~frameOp.limited

\* C31: the processing flag is clear whenever no handler is running, after a
\* published frame as after a failed one, and the consumer never ends up
\* busy-dropping: a frame handled by the initialized consumer when the rate
\* limit does not apply is accepted, whatever frames and failures came before.
C31_FlagClearWhenIdle ==
    /\ ~isProcessing
    /\ frameOp.outcome \notin {"none", "skipped"} /\ ~frameOp.limited =>
         Accepted(frameOp.outcome)

\* a frame that failed right after a frame that failed: both were accepted
C31_Witness ==
    /\ frameOp.outcome = "failed"
    /\ frameOp.afterFailure
    /\ ~frameOp.limited
    /\ ~isProcessing

\* C13: minPublishInterval is a finite number of at least 33 ms, whatever
\* setPublishRate was called with.
C13_IntervalFiniteAtLeast33 ==
    /\ minPublishInterval.k = "num"
    /\ minPublishInterval.num >= FloorInterval * minPublishInterval.den

\* ---------------------------------------------------------------------------
\* The frame producer of the browser (src/src/ROS2ImageStreamer.js): objects
\* of class ROS2ImageStreamer, each with a WebSocket to the consumer, a hidden
\* canvas and a setInterval timer that captures and sends frames.
\* ---------------------------------------------------------------------------
VARIABLES
    streamer,            \* the ROS2ImageStreamer objects, by object number
    clock,               \* Date.now() of the browser
    nApi,                \* method calls made on the objects so far
    prodOp,              \* what the last call or timer callback did
    pwin                 \* accepted frames of one 1000 ms window

producerVars == <<streamer, clock, nApi, prodOp, pwin>>

MaxPipelines == 2
MaxApi == 3
MaxStreamTime == 400
MaxPacedTime == 1100
MaxLate == 100

\* the object numbers of the ROS2ImageStreamer objects
Streamers == 1..MaxPipelines

\* the frame rates the methods are called with; DroneStream starts the loop
\* at 10 (part_001:148)
FrameRates == {5, 10}

\* the steps Date.now() advances by between two events
StreamClockSteps == {100}
PacedClockSteps == {20}

\* ws.bufferedAmount as a tick reads it, around the mark of line 111
HighWaterMark == 1024 * 50
BufferedAmounts == {0, HighWaterMark, HighWaterMark + 1}

\* the timeout setInterval is given at line 85, an integer number of ms
captureIntervalShort(frameRate) == 800 \div frameRate

captureInterval(frameRate) == 1000 \div frameRate

\* the fields of an object after its constructor (lines 7-32); an object number
\* not yet in use holds the same record with created = FALSE.  this.ws is
\* null or the WebSocket of connect(); readyState is that WebSocket's
\* ("none" before connect()).  timers holds every armed setInterval timer
\* of the object, intervalId names the one the object remembers (0: null).
\* pending is the queue of setTimeout callbacks of setFrameRate and
\* adjustPerformance: the frame rate the callback of setFrameRate holds, 0
\* for the callback of adjustPerformance, which reads this.frameRate when
\* it runs.  scaleFactor and quality are in tenths; as a value of frameRate,
\* scaleFactor or quality, 0 is undefined.  lastAccept
\* and clean do not exist in the code: the time of the last frame that
\* passed the pacing test, and whether resetStats was not called since.
NewStreamer(isCreated) ==
    [created |-> isCreated, ws |-> FALSE, readyState |-> "none",
     canvasAttached |-> isCreated, isStreaming |-> FALSE, frameRate |-> 8,
     scaleFactor |-> 5, quality |-> 3,
     intervalId |-> 0, timers |-> {},
     lastFrameTime |-> 0, frameDropCount |-> 0, pending |-> <<>>,
     lastAccept |-> 0, clean |-> FALSE]

\* connect (lines 34-58): a new WebSocket, connecting
connect(p) == [p EXCEPT !.ws = TRUE, !.readyState = "connecting"]

\* ws.onopen (lines 39-42) resolves the promise of connect
onopen(p) == [p EXCEPT !.readyState = "open"]

\* ws.onclose (lines 49-52): the streaming flag is cleared; the timer is not
onclose(p) == [p EXCEPT !.readyState = "closed", !.isStreaming = FALSE]

\* the id setInterval returns: one that no armed timer of the object has
newTimerId(p) ==
    CHOOSE n \in 1..(Cardinality(p.timers) + 1) :
        /\ \A tm \in p.timers : tm.id # n
        /\ \A i \in 1..(n - 1) : \E tm \in p.timers : tm.id = i

\* the parameter of startStreaming (line 60): 8 when the argument is undefined
frameRateOrDefault(frameRate) == IF frameRate = 0 THEN 8 ELSE frameRate

\* startStreaming (lines 60-88) called at time t
startStreaming(p, frameRate, t) ==
    IF p.isStreaming THEN p
    ELSE IF ~p.ws \/ p.readyState # "open" THEN p
    ELSE [p EXCEPT !.frameRate = frameRateOrDefault(frameRate),
                   !.isStreaming = TRUE,
                   !.lastFrameTime = 0,
                   !.frameDropCount = 0,
                   !.intervalId = newTimerId(p),
                   !.timers = @ \cup {[id |-> newTimerId(p),
                                       interval |-> captureInterval(frameRateOrDefault(frameRate)),
                                       due |-> t + captureInterval(frameRateOrDefault(frameRate))]}]

\* stopStreaming (lines 90-103)
stopStreaming(p) ==
    IF ~p.isStreaming THEN p
    ELSE [p EXCEPT !.isStreaming = FALSE,
                   !.timers = {tm \in @ : tm.id # p.intervalId},
                   !.intervalId = 0]

\* setFrameRate (lines 186-196): the restart is a setTimeout callback
setFrameRate(p, frameRate) ==
    IF p.isStreaming
    THEN [stopStreaming([p EXCEPT !.frameRate = frameRate])
            EXCEPT !.pending = Append(@, frameRate)]
    ELSE [p EXCEPT !.frameRate = frameRate]

\* the levels adjustPerformance is called with: its three presets, a name
\* that is no property of the settings object, and a name the settings
\* object inherits from Object.prototype
Levels == {"high_quality", "balanced", "low_latency", "ultra", "constructor"}

\* the settings object of lines 252-256
settings ==
    [high_quality |-> [frameRate |-> 12, scaleFactor |-> 8, quality |-> 7],
     balanced |-> [frameRate |-> 8, scaleFactor |-> 5, quality |-> 5],
     low_latency |-> [frameRate |-> 5, scaleFactor |-> 3, quality |-> 3]]

\* settings[level] || settings['balanced'] (line 258): the preset of that
\* name; for a name of Object.prototype the inherited property, a function,
\* which is truthy and has no frameRate, scaleFactor or quality
settingOf(level) ==
    IF level \in DOMAIN settings THEN settings[level]
    ELSE IF level = "constructor"
    THEN [frameRate |-> 0, scaleFactor |-> 0, quality |-> 0]
    ELSE settings["balanced"]

\* adjustPerformance (lines 251-272): the restart is a setTimeout callback
\* that reads this.frameRate when it runs
adjustPerformance(p, level) ==
    LET q == [p EXCEPT !.frameRate = settingOf(level).frameRate,
                       !.scaleFactor = settingOf(level).scaleFactor,
                       !.quality = settingOf(level).quality]
    IN IF q.isStreaming
       THEN [stopStreaming(q) EXCEPT !.pending = Append(@, 0)]
       ELSE q

\* ws.close() of line 202: the closing handshake starts, the close event
\* comes later
closeSocket(readyState) ==
    IF readyState \in {"connecting", "open"} THEN "closing" ELSE readyState

\* disconnect (lines 198-210)
disconnectKeepsSocket(p) ==
    [stopStreaming(p) EXCEPT !.readyState = IF p.ws THEN closeSocket(@) ELSE @,
                             !.canvasAttached = FALSE]

disconnect(p) ==
    [stopStreaming(p) EXCEPT !.readyState = IF p.ws THEN closeSocket(@) ELSE @,
                             !.ws = FALSE,
                             !.canvasAttached = FALSE]

\* what one call of disconnect releases: the timer clearInterval is called
\* on, the socket close() is called on, the canvas removed from the page
released(p) ==
    (IF p.isStreaming /\ p.intervalId # 0 THEN {"timer"} ELSE {})
    \cup (IF p.ws THEN {"socket"} ELSE {})
    \cup (IF p.canvasAttached THEN {"canvas"} ELSE {})

\* resetStats (lines 245-248)
resetStreamStats(p) ==
    [p EXCEPT !.frameDropCount = 0, !.lastFrameTime = 0, !.clean = FALSE]

\* the pacing test of lines 120-126 at time t
tooEarlyHalf(p, t) == (t - p.lastFrameTime) * p.frameRate * 10 < 1000 * 5

tooEarly(p, t) == (t - p.lastFrameTime) * p.frameRate * 10 < 1000 * 8

\* the congestion test of line 111
congested(buffered) == buffered > HighWaterMark

\* the test of line 176 before ws.send
channelNotClosed(p) == p.readyState # "closed"

channelOpen(p) == p.readyState = "open"

\* captureAndSendFrame (lines 105-184) at time t.  buffered: ws.bufferedAmount;
\* video: the video element has data and a size (lines 130-137); ok: drawing
\* and encoding go through (the catch of line 181 otherwise)
captureOutcome(p, t, buffered, video, ok) ==
    IF ~p.isStreaming \/ ~p.ws THEN "idle"
    ELSE IF congested(buffered) THEN "congested"
    ELSE IF tooEarly(p, t) THEN "early"
    ELSE IF ~video THEN "not_ready"
    ELSE IF ~ok THEN "failed"
    ELSE IF channelOpen(p) THEN "sent"
    ELSE "unsent"

\* the outcomes that add one to frameDropCount (lines 113, 124)
CountedWithNotReady(o) == o \in {"congested", "early", "not_ready"}

Counted(o) == o \in {"congested", "early"}

Paced(o) == o \in {"failed", "sent", "unsent"}

captureAndSendFrame(p, t, o) ==
    [p EXCEPT !.frameDropCount = IF Counted(o) THEN @ + 1 ELSE @,
              !.lastFrameTime = IF Paced(o) THEN t ELSE @,
              !.lastAccept = IF Paced(o) THEN t ELSE @,
              !.clean = IF Paced(o) THEN TRUE ELSE @]

NoProdOp ==
    [op |-> "none", s |-> 0, outcome |-> "none", early |-> FALSE, over |-> FALSE,
     streaming |-> FALSE, clean |-> FALSE, counted |-> 0,
     soon |-> FALSE, ready |-> FALSE, captured |-> FALSE, open |-> FALSE,
     same |-> FALSE, level |-> "", setting |-> <<>>, queued |-> FALSE, rate |-> 0,
     api |-> "none", apiReleased |-> {}, prevApi |-> "none", prevReleased |-> {}]

NoPwin == [open |-> FALSE, start |-> 0, rate |-> 0, acc |-> 0, punctual |-> FALSE]

ProducerInit ==
    /\ streamer = [s \in Streamers |-> NewStreamer(FALSE)]
    /\ clock = StartTime
    /\ nApi = 0
    /\ prodOp = NoProdOp
    /\ pwin = NoPwin

\* a method call on object s, recorded with the call before it
ApiOp(name, s, rel) ==
    [NoProdOp EXCEPT !.op = name, !.s = s,
                     !.api = name, !.apiReleased = rel,
                     !.prevApi = prodOp.api, !.prevReleased = prodOp.apiReleased]

\* an event on object s that is not a method call
EventOp(name, s) ==
    [NoProdOp EXCEPT !.op = name, !.s = s,
                     !.api = prodOp.api, !.apiReleased = prodOp.apiReleased,
                     !.prevApi = prodOp.prevApi, !.prevReleased = prodOp.prevReleased]

\* Date.now() moves on while a timer is armed; a timer fires at most MaxLate
\* after it is due
Advance ==
    /\ \E s \in Streamers : streamer[s].timers # {}
    /\ \E d \in StreamClockSteps :
         /\ clock + d <= StartTime + MaxStreamTime
         /\ \A s \in Streamers : \A tm \in streamer[s].timers :
               clock + d <= tm.due + MaxLate
         /\ clock' = clock + d
    /\ prodOp' = EventOp("advance", 0)
    /\ UNCHANGED <<streamer, nApi, pwin>>

\* Date.now() moves on with every timer firing at the time it is due
AdvancePunctual ==
    /\ \E s \in Streamers : streamer[s].timers # {}
    /\ \E d \in PacedClockSteps :
         /\ clock + d <= StartTime + MaxPacedTime
         /\ \A s \in Streamers : \A tm \in streamer[s].timers :
               clock + d <= tm.due
         /\ clock' = clock + d
    /\ prodOp' = EventOp("advance", 0)
    /\ UNCHANGED <<streamer, nApi, pwin>>

\* new ROS2ImageStreamer(videoElement), the only object of this page
construct(s) ==
    /\ \A t \in Streamers : ~streamer[t].created
    /\ \A t \in Streamers : s <= t
    /\ streamer' = [streamer EXCEPT ![s] = NewStreamer(TRUE)]
    /\ prodOp' = EventOp("construct", s)
    /\ UNCHANGED <<clock, nApi, pwin>>

\* connect(), called once on an object (part_001:144)
callConnect(s) ==
    /\ streamer[s].created
    /\ streamer[s].readyState = "none"
    /\ streamer' = [streamer EXCEPT ![s] = connect(@)]
    /\ prodOp' = ApiOp("connect", s, {})
    /\ UNCHANGED <<clock, nApi, pwin>>

\* the connection is established: the open event
socketOpens(s) ==
    /\ streamer[s].readyState = "connecting"
    /\ streamer' = [streamer EXCEPT ![s] = onopen(@)]
    /\ UNCHANGED prodOp
    /\ UNCHANGED <<clock, nApi, pwin>>

\* the consumer starts the closing handshake: readyState is CLOSING until
\* the close event
socketClosing(s) ==
    /\ streamer[s].readyState = "open"
    /\ streamer' = [streamer EXCEPT ![s].readyState = "closing"]
    /\ UNCHANGED prodOp
    /\ UNCHANGED <<clock, nApi, pwin>>

\* the connection is gone (refused, lost, closed by either end): the close
\* event
socketCloses(s) ==
    /\ streamer[s].readyState \in {"connecting", "open", "closing"}
    /\ streamer' = [streamer EXCEPT ![s] = onclose(@)]
    /\ UNCHANGED prodOp
    /\ UNCHANGED <<clock, nApi, pwin>>

callStartStreaming(s) ==
    /\ streamer[s].created
    /\ nApi < MaxApi
    /\ nApi' = nApi + 1
    /\ \E frameRate \in FrameRates :
         streamer' = [streamer EXCEPT ![s] = startStreaming(@, frameRate, clock)]
    /\ prodOp' = ApiOp("startStreaming", s, {})
    /\ pwin' = NoPwin
    /\ UNCHANGED clock

callStopStreaming(s) ==
    /\ streamer[s].created
    /\ nApi < MaxApi
    /\ nApi' = nApi + 1
    /\ streamer' = [streamer EXCEPT ![s] = stopStreaming(@)]
    /\ prodOp' = ApiOp("stopStreaming", s, {})
    /\ pwin' = NoPwin
    /\ UNCHANGED clock

callSetFrameRate(s) ==
    /\ streamer[s].created
    /\ nApi < MaxApi
    /\ nApi' = nApi + 1
    /\ \E frameRate \in FrameRates :
         LET q == setFrameRate(streamer[s], frameRate)
         IN /\ streamer' = [streamer EXCEPT ![s] = q]
            /\ prodOp' = [ApiOp("setFrameRate", s, {}) EXCEPT
                            !.rate = frameRate,
                            !.streaming = streamer[s].isStreaming,
                            !.queued = ~q.isStreaming /\ q.timers = {}
                                       /\ Len(q.pending) = Len(streamer[s].pending) + 1]
    /\ pwin' = NoPwin
    /\ UNCHANGED clock

\* adjustPerformance(level) on object s; the record says what the fields
\* are after the call, whether a restart was queued, and the frame rate the
\* call asks for (the preset's, that of balanced for a name that is no preset)
callAdjustPerformance(s) ==
    /\ streamer[s].created
    /\ nApi < MaxApi
    /\ nApi' = nApi + 1
    /\ \E level \in Levels :
         LET q == adjustPerformance(streamer[s], level)
         IN /\ streamer' = [streamer EXCEPT ![s] = q]
            /\ prodOp' = [ApiOp("adjustPerformance", s, {}) EXCEPT
                            !.level = level,
                            !.rate = IF level \in DOMAIN settings
                                     THEN settings[level].frameRate
                                     ELSE settings["balanced"].frameRate,
                            !.streaming = streamer[s].isStreaming,
                            !.setting = <<q.frameRate, q.scaleFactor, q.quality>>,
                            !.queued = ~q.isStreaming /\ q.timers = {}
                                       /\ Len(q.pending) = Len(streamer[s].pending) + 1]
    /\ pwin' = NoPwin
    /\ UNCHANGED clock

\* the setTimeout callback of line 193 or of line 269
restartDropped(s) ==
    /\ streamer[s].pending # <<>>
    /\ streamer' = [streamer EXCEPT ![s].pending = Tail(@)]
    /\ UNCHANGED prodOp
    /\ pwin' = NoPwin
    /\ UNCHANGED <<clock, nApi>>

restartFires(s) ==
    /\ streamer[s].pending # <<>>
    /\ streamer' = [streamer EXCEPT
                      ![s] = [startStreaming(@, IF Head(@.pending) = 0 THEN @.frameRate
                                                ELSE Head(@.pending), clock)
                                EXCEPT !.pending = Tail(@)]]
    /\ UNCHANGED prodOp
    /\ pwin' = NoPwin
    /\ UNCHANGED <<clock, nApi>>

callResetStats(s) ==
    /\ streamer[s].created
    /\ nApi < MaxApi
    /\ nApi' = nApi + 1
    /\ streamer' = [streamer EXCEPT ![s] = resetStreamStats(@)]
    /\ prodOp' = ApiOp("resetStats", s, {})
    /\ UNCHANGED <<clock, pwin>>

callDisconnect(s) ==
    /\ streamer[s].created
    /\ nApi < MaxApi
    /\ nApi' = nApi + 1
    /\ streamer' = [streamer EXCEPT ![s] = disconnect(@)]
    /\ prodOp' = ApiOp("disconnect", s, released(streamer[s]))
    /\ pwin' = NoPwin
    /\ UNCHANGED clock

\* the 1000 ms window of accepted frames: it starts at an accepted frame,
\* any one, and counts the accepted frames up to 1000 ms later; punctual
\* says that every tick from its start on fired when it was due
PwinAfter(o, onTime, frameRate) ==
    IF pwin.open /\ clock - pwin.start < 1000
    THEN {[pwin EXCEPT !.acc = @ + (IF Paced(o) THEN 1 ELSE 0),
                       !.punctual = @ /\ onTime]}
         \cup (IF Paced(o)
               THEN {[open |-> TRUE, start |-> clock, rate |-> frameRate,
                      acc |-> 1, punctual |-> onTime]}
               ELSE {})
    ELSE IF Paced(o)
    THEN {[open |-> TRUE, start |-> clock, rate |-> frameRate,
           acc |-> 1, punctual |-> onTime]}
    ELSE {NoPwin}

\* a setInterval timer of object s fires, no earlier than it is due, and
\* runs captureAndSendFrame; the next tick is due one interval after this
\* one was
timerFires(s) ==
    \E tm \in streamer[s].timers :
      /\ tm.due <= clock
      /\ \E buffered \in BufferedAmounts, video \in BOOLEAN, ok \in BOOLEAN :
           LET p == streamer[s]
               o == captureOutcome(p, clock, buffered, video, ok)
               q == captureAndSendFrame(p, clock, o)
           IN /\ streamer' = [streamer EXCEPT
                   ![s] = [q EXCEPT !.timers = (@ \ {tm})
                                      \cup {[tm EXCEPT !.due = @ + tm.interval]}]]
              /\ prodOp' = [EventOp("tick", s) EXCEPT
                              !.outcome = o,
                              !.early = p.lastAccept > 0
                                        /\ (clock - p.lastAccept) * p.frameRate * 10 < 1000 * 8,
                              !.over = congested(buffered),
                              !.streaming = p.isStreaming /\ p.ws,
                              !.clean = p.clean,
                              !.counted = q.frameDropCount - p.frameDropCount,
                              !.soon = (clock - p.lastFrameTime) * p.frameRate * 10 < 1000 * 8,
                              !.ready = video,
                              !.captured = ok,
                              !.open = p.readyState = "open",
                              !.same = (q = p)]
              /\ pwin' \in PwinAfter(o, tm.due = clock, p.frameRate)
      /\ UNCHANGED <<clock, nApi>>

\* C14 as stated: a tick that fires less than 0.8 x (1000 / frameRate) ms after
\* the last accepted frame is dropped and adds one to frameDropCount, whatever
\* ticks, restarts and resetStats calls came before.
C14_EarlyTickDropped ==
    prodOp.op = "tick" /\ prodOp.early =>
        Counted(prodOp.outcome) /\ prodOp.counted = 1

\* C14 as the code has it: the same of every tick that fires while the object
\* is streaming and resetStats was not called since the last accepted frame.
C14_EarlyTickDroppedUnlessReset ==
    prodOp.op = "tick" /\ prodOp.early /\ prodOp.streaming /\ prodOp.clean =>
        Counted(prodOp.outcome) /\ prodOp.counted = 1

C14_Witness ==
    /\ prodOp.op = "tick"
    /\ prodOp.early
    /\ prodOp.streaming
    /\ prodOp.clean
    /\ prodOp.outcome = "early"
    /\ streamer[prodOp.s].frameDropCount > 0

\* C15: on a tick that reads a bufferedAmount above the high-water mark no
\* frame is accepted or sent and frameDropCount goes up by one.
C15_CongestedTickCounted ==
    prodOp.op = "tick" /\ prodOp.over =>
        ~Paced(prodOp.outcome) /\ prodOp.counted = 1

\* C16: when every tick fires exactly when it is due, at most frameRate frames
\* are accepted in any 1000 ms window that starts at an accepted frame.
C16_AtMostRatePerSecond ==
    pwin.open /\ pwin.punctual => pwin.acc <= pwin.rate

C16_Witness ==
    /\ pwin.open
    /\ pwin.punctual
    /\ pwin.rate = 10
    /\ pwin.acc = 10
    /\ clock - pwin.start >= 900

\* C17: a disconnect() that follows a disconnect() with no other call in
\* between releases nothing: no timer to clear, no socket to close, no canvas
\* to remove.
C17_SecondDisconnectReleasesNothing ==
    prodOp.op = "disconnect" /\ prodOp.prevApi = "disconnect" =>
        prodOp.apiReleased = {}

C17_Witness ==
    /\ prodOp.op = "disconnect"
    /\ prodOp.prevApi = "disconnect"
    /\ prodOp.prevReleased = {"timer", "socket", "canvas"}
    /\ prodOp.apiReleased = {}

\* C29 as stated: on a tick of a streaming object that is neither congested
\* nor too early a frame is sent if and only if the socket is open, and no
\* tick sends a frame while the socket is not open.
C29_SentIffOpen ==
    prodOp.op = "tick" =>
        /\ prodOp.streaming /\ ~prodOp.over /\ ~prodOp.soon =>
              (prodOp.outcome = "sent" <=> prodOp.open)
        /\ ~prodOp.open => prodOp.outcome # "sent"

\* C29 as the code has it: the same of the ticks on which the video element
\* has a frame and drawing and encoding it go through.
C29_SentIffOpenAndCaptured ==
    prodOp.op = "tick" =>
        /\ prodOp.streaming /\ ~prodOp.over /\ ~prodOp.soon
              /\ prodOp.ready /\ prodOp.captured =>
                 (prodOp.outcome = "sent" <=> prodOp.open)
        /\ ~prodOp.open => prodOp.outcome # "sent"

\* the restart of setFrameRate(f) on object s is queued and next to run
RestartQueued(s, f) ==
    streamer[s].pending # <<>> /\ Head(streamer[s].pending) = f

\* the loop of object s runs with the interval of frame rate f
RunningAt(s, f) ==
    /\ streamer[s].isStreaming
    /\ \E tm \in streamer[s].timers :
          tm.id = streamer[s].intervalId /\ tm.interval = 1000 \div f

\* the loop of object s cannot be restarted (the socket is not open, or
\* disconnect dropped it) or was started again by another call before the
\* queued restart ran
RestartOverridden(s) ==
    \/ ~streamer[s].ws
    \/ streamer[s].readyState # "open"
    \/ streamer[s].isStreaming /\ streamer[s].pending # <<>>

\* setFrameRate on a streaming object leaves it stopped with no timer armed,
\* so that no tick runs until the restart, and the restart queued
StoppedForRestart ==
    prodOp.op = "setFrameRate" /\ prodOp.streaming => prodOp.queued

\* C25 as stated: setFrameRate(f) on a streaming object stops the timer, no
\* tick runs in the gap, and the loop is eventually running again with the
\* interval of f.
C25_RestartsAtNewRate ==
    /\ []StoppedForRestart
    /\ \A s \in Streamers, f \in FrameRates :
          RestartQueued(s, f) ~> RunningAt(s, f)

\* C25 as the code has it: the loop is eventually running again with the
\* interval of f unless the socket is no longer open when the restart runs,
\* disconnect was called, or another startStreaming came first.
C25_RestartsAtNewRateIfOpen ==
    /\ []StoppedForRestart
    /\ \A s \in Streamers, f \in FrameRates :
          RestartQueued(s, f) ~> (RunningAt(s, f) \/ RestartOverridden(s))

C25_Witness ==
    \E s \in Streamers :
        /\ prodOp.op = "setFrameRate"
        /\ prodOp.s = s
        /\ streamer[s].pending = <<>>
        /\ streamer[s].frameRate = 5
        /\ RunningAt(s, 5)

\* C26: adjustPerformance(level) leaves frameRate, scaleFactor and quality
\* equal to the three values of the preset named level, or of the balanced
\* preset when level names none of the three presets, and, when the object
\* was streaming, stops the loop and queues its restart.
C26_PresetApplied ==
    prodOp.op = "adjustPerformance" =>
        /\ prodOp.setting =
              IF prodOp.level = "high_quality" THEN <<12, 8, 7>>
              ELSE IF prodOp.level = "low_latency" THEN <<5, 3, 3>>
              ELSE <<8, 5, 5>>
        /\ prodOp.streaming => prodOp.queued

C29_Witness ==
    /\ prodOp.op = "tick"
    /\ prodOp.streaming /\ ~prodOp.over /\ ~prodOp.soon
    /\ prodOp.ready /\ prodOp.captured
    /\ ~prodOp.open
    /\ prodOp.outcome = "unsent"

\* C30: a tick of a streaming object that is neither congested nor too early
\* and finds the video element without a frame or without a size sends
\* nothing and leaves every field of the object as it was: frameDropCount
\* and lastFrameTime keep their values.
C30_NotReadyTickChangesNothing ==
    prodOp.op = "tick" /\ prodOp.streaming /\ ~prodOp.over /\ ~prodOp.soon
        /\ ~prodOp.ready =>
            /\ prodOp.outcome = "not_ready"
            /\ prodOp.counted = 0
            /\ prodOp.same

C30_Witness ==
    /\ prodOp.op = "tick"
    /\ prodOp.streaming /\ ~prodOp.over /\ ~prodOp.soon
    /\ ~prodOp.ready
    /\ prodOp.open
    /\ prodOp.same
    /\ streamer[prodOp.s].lastFrameTime > 0

\* C32: an object is streaming exactly when one setInterval timer of it is
\* armed: no timer is armed while isStreaming is false and never two at once.
C32_StreamingIffOneTimer ==
    \A s \in Streamers :
        streamer[s].isStreaming <=> Cardinality(streamer[s].timers) = 1

\* the loop that runs after the last setFrameRate or adjustPerformance call
\* runs at the rate that call asked for
LatestRateUsed ==
    \A s \in Streamers :
        /\ prodOp.op \in {"setFrameRate", "adjustPerformance"}
        /\ prodOp.s = s
        /\ streamer[s].isStreaming
        => RunningAt(s, prodOp.rate)

\* no loop runs after the last call was stopStreaming or disconnect
StopNotUndone ==
    \A s \in Streamers :
        prodOp.op \in {"stopStreaming", "disconnect"} /\ prodOp.s = s
        => ~streamer[s].isStreaming /\ streamer[s].timers = {}

\* C33: when setFrameRate and adjustPerformance calls follow each other
\* within the restart gap, the loop that runs afterwards uses the frame rate
\* asked for last, and a stopStreaming or disconnect called within the gap
\* is not undone by the restart that is pending.
C33_LatestRequestWins == LatestRateUsed /\ StopNotUndone

\* ---------------------------------------------------------------------------
\* The peer-link manager of the browser (src/unnamed/part_001): the static
\* registry DroneStreamManager.ongoingStreams and the DroneStream objects,
\* each of which creates ROS2ImageStreamer objects when a track arrives.
\* ---------------------------------------------------------------------------
VARIABLES
    ongoingStreams,      \* DroneStreamManager.ongoingStreams: drone id -> DroneStream (0: no entry)
    stream,              \* the DroneStream objects, by object number
    mgrOp                \* what the last call of the manager did

clientVars == <<ongoingStreams, stream, mgrOp>>

\* the object numbers of the DroneStream objects
MaxLinks == 2

StreamObjects == 1..MaxLinks

\* what the calls and events of SpecClient are cut off at: DroneStream
\* objects, ROS2ImageStreamer objects, track events of one peer connection
MaxStreams == 1
MaxStreamers == 1
MaxTracks == 1

\* the same of SpecTracks
MaxTrackEvents == 2

\* the DroneStream and ROS2ImageStreamer objects constructed so far, and the
\* track events of DroneStream k so far
StreamsMade == Cardinality({k \in StreamObjects : stream[k].created})

StreamersMade == Cardinality({s \in Streamers : streamer[s].created})

TracksHeard(k) == Cardinality(stream[k].made) + stream[k].pendingInit

\* the drone ids the page's handlers pass on (src/src/App.js:43-73)
DroneIds == {"d1", "d2"}

\* the rate initializeROS2Streaming starts the loop at (part_001:148)
InitialFrameRate == 10

\* the fields of a DroneStream after its constructor (part_001:81-87) and
\* createPeerConnection; an object number not yet in use holds the same record
\* with created = FALSE.  peerConnection is "open", or "null" once
\* closeDroneStream closed it and dropped the reference.  pendingInit counts
\* the setTimeout callbacks of initializeROS2Streaming not yet run, awaiting
\* holds the ROS2ImageStreamer objects whose connect() is awaited.  made does
\* not exist in the code: every ROS2ImageStreamer this object created.
\* connectionState, signalingState, remoteDescription (set or not) and
\* candidates (the remote candidates added) are those of the peer connection.
\* offer is the position of the promise chain of startDroneStream: "none",
\* "creating" (createOffer pending), "applying" (setLocalDescription
\* pending), "sent" (sendMessage returned) or "failed" (the catch ran);
\* logged counts the runs of that catch.  got does not exist in the code: the
\* kinds of message handed to handleIncomingSocketMsg since the offer was
\* applied.
NewDroneStream(isCreated, droneID) ==
    [created |-> isCreated, droneSocketID |-> droneID,
     peerConnection |-> IF isCreated THEN "open" ELSE "null",
     connectionState |-> "new",
     signalingState |-> "stable", remoteDescription |-> FALSE, candidates |-> {},
     offer |-> "none", logged |-> 0, got |-> {},
     ros2Streamer |-> 0, pendingInit |-> 0, awaiting |-> {}, made |-> {}]

NoMgrOp ==
    [op |-> "none", droneID |-> "", threw |-> "none", present |-> FALSE,
     unchanged |-> TRUE, released |-> {}, stream |-> 0, pipeline |-> 0,
     repeats |-> "no"]

ClientInit ==
    /\ ongoingStreams = [d \in DroneIds |-> 0]
    /\ stream = [k \in StreamObjects |-> NewDroneStream(FALSE, "")]
    /\ mgrOp = NoMgrOp

\* getStreamByDroneID (lines 27-34): the stream, or a KeyError
getStreamLenient(droneID) == [threw |-> "none", stream |-> ongoingStreams[droneID]]

getStreamByDroneID(droneID) ==
    IF droneID \in DOMAIN ongoingStreams /\ ongoingStreams[droneID] # 0
    THEN [threw |-> "none", stream |-> ongoingStreams[droneID]]
    ELSE [threw |-> "KeyError", stream |-> 0]

\* a call of the manager; repeats says whether it is a closeDroneStream that
\* follows a closeDroneStream of the same id, and what that one released
MgrOp(name, droneID) ==
    [NoMgrOp EXCEPT !.op = name, !.droneID = droneID,
                    !.repeats = IF name = "close" /\ mgrOp.op = "close"
                                   /\ mgrOp.droneID = droneID
                                THEN IF "peerConnection" \in mgrOp.released
                                     THEN "released" ELSE "nothing"
                                ELSE "no"]

\* createDroneStream (lines 51-56): a new DroneStream takes the entry of
\* droneID, whether or not there was one
createDroneStream(droneID) ==
    /\ \E k \in StreamObjects :
         /\ ~stream[k].created
         /\ \A j \in StreamObjects : ~stream[j].created => k <= j
         /\ stream' = [stream EXCEPT ![k] = NewDroneStream(TRUE, droneID)]
         /\ ongoingStreams' = [ongoingStreams EXCEPT ![droneID] = k]
         /\ mgrOp' = [MgrOp("create", droneID) EXCEPT !.unchanged = FALSE, !.stream = k]
    /\ UNCHANGED <<streamer, clock, nApi, prodOp, pwin>>

\* the entry of droneID after closeDroneStream went through (line 69)
entryKept(k) == k

entryAfterClose(k) == 0

\* what a call of closeDroneStream that finds stream k releases
releasedByClose(k) ==
    (IF stream[k].ros2Streamer # 0 /\ released(streamer[stream[k].ros2Streamer]) # {}
     THEN {"pipeline"} ELSE {})
    \cup (IF stream[k].peerConnection = "open" THEN {"peerConnection"} ELSE {})

\* closeDroneStream (lines 58-72).  A KeyError of the lookup leaves the
\* function before it changed anything; so does the TypeError of a property
\* read on undefined or null (stream.ros2Streamer at line 64,
\* stream.peerConnection.close() at line 68).
closeDroneStream(droneID) ==
    /\ LET found == getStreamByDroneID(droneID)
           k == found.stream
       IN IF found.threw # "none"
          THEN /\ mgrOp' = [MgrOp("close", droneID) EXCEPT !.threw = found.threw]
               /\ UNCHANGED <<ongoingStreams, stream, streamer>>
          ELSE IF k = 0
          THEN /\ mgrOp' = [MgrOp("close", droneID) EXCEPT !.threw = "TypeError"]
               /\ UNCHANGED <<ongoingStreams, stream, streamer>>
          ELSE IF stream[k].peerConnection = "null"
          THEN /\ streamer' = IF stream[k].ros2Streamer # 0
                              THEN [streamer EXCEPT ![stream[k].ros2Streamer] = disconnect(@)]
                              ELSE streamer
               /\ mgrOp' = [MgrOp("close", droneID) EXCEPT
                              !.threw = "TypeError", !.present = TRUE, !.stream = k,
                              !.pipeline = stream[k].ros2Streamer,
                              !.unchanged = (streamer' = streamer),
                              !.released = releasedByClose(k)]
               /\ UNCHANGED <<ongoingStreams, stream>>
          ELSE /\ streamer' = IF stream[k].ros2Streamer # 0
                              THEN [streamer EXCEPT ![stream[k].ros2Streamer] = disconnect(@)]
                              ELSE streamer
               /\ ongoingStreams' = [ongoingStreams EXCEPT ![droneID] = entryAfterClose(k)]
               /\ stream' = [stream EXCEPT ![k].peerConnection = "null"]
               /\ mgrOp' = [MgrOp("close", droneID) EXCEPT
                              !.present = TRUE, !.stream = k, !.unchanged = FALSE,
                              !.pipeline = stream[k].ros2Streamer,
                              !.released = releasedByClose(k)]
    /\ UNCHANGED <<clock, nApi, prodOp, pwin>>

\* handleOnTrack (lines 126-133), once per track of the remote description:
\* initializeROS2Streaming (lines 135-160) sets a timeout of 1000 ms
handleOnTrack(k) ==
    /\ stream[k].created
    /\ stream[k].peerConnection = "open"
    /\ stream' = [stream EXCEPT ![k].pendingInit = @ + 1]
    /\ UNCHANGED <<ongoingStreams, mgrOp, streamer, clock, nApi, prodOp, pwin>>

\* the timeout callback of lines 138-155 up to its await: a new
\* ROS2ImageStreamer becomes this.ros2Streamer and connects
initializeROS2Streaming(k) ==
    /\ stream[k].pendingInit > 0
    /\ \E s \in Streamers :
         /\ ~streamer[s].created
         /\ \A t \in Streamers : ~streamer[t].created => s <= t
         /\ streamer' = [streamer EXCEPT ![s] = connect(NewStreamer(TRUE))]
         /\ stream' = [stream EXCEPT ![k].pendingInit = @ - 1,
                                     ![k].ros2Streamer = s,
                                     ![k].awaiting = @ \cup {s},
                                     ![k].made = @ \cup {s}]
    /\ UNCHANGED <<ongoingStreams, mgrOp, clock, nApi, prodOp, pwin>>

\* connect() of object s resolves and the callback goes on at line 145:
\* startStreaming(10) on what this.ros2Streamer is by then
connected(k, s) ==
    /\ s \in stream[k].awaiting
    /\ streamer[s].readyState = "connecting"
    /\ LET opened == [streamer EXCEPT ![s] = onopen(@)]
           r == stream[k].ros2Streamer
       IN streamer' = [opened EXCEPT ![r] = startStreaming(@, InitialFrameRate, clock)]
    /\ stream' = [stream EXCEPT ![k].awaiting = @ \ {s}]
    /\ UNCHANGED <<ongoingStreams, mgrOp, clock, nApi, prodOp, pwin>>

\* the connection states a peer connection moves through while it is not
\* closed by close()
NextConnectionStates(state) ==
    IF state = "new" THEN {"connecting"}
    ELSE IF state = "connecting" THEN {"connected", "failed"}
    ELSE IF state = "connected" THEN {"disconnected", "failed"}
    ELSE IF state = "disconnected" THEN {"connected", "failed"}
    ELSE {}

\* what handleOnConnectionStateChange (lines 162-184) does to the
\* ROS2ImageStreamer objects: every case of its switch logs and breaks
handleOnConnectionStateChange(all, k, state) == all

\* the connectionstatechange event of the peer connection of DroneStream k
\* (line 209)
connectionStateChanges(k) ==
    /\ stream[k].created
    /\ stream[k].peerConnection = "open"
    /\ \E state \in NextConnectionStates(stream[k].connectionState) :
         /\ stream' = [stream EXCEPT ![k].connectionState = state]
         /\ streamer' = handleOnConnectionStateChange(streamer, k, state)
    /\ UNCHANGED <<ongoingStreams, mgrOp, clock, nApi, prodOp, pwin>>

\* onRos2FrameRateChange of the page (src/src/App.js:91-102): setFrameRate
\* on the ROS2ImageStreamer of the stream of droneID, if there is one
onRos2FrameRateChange(droneID) ==
    /\ LET found == getStreamByDroneID(droneID)
           k == found.stream
       IN IF found.threw = "none" /\ k # 0 /\ stream[k].ros2Streamer # 0
          THEN \E frameRate \in FrameRates :
                  streamer' = [streamer EXCEPT
                                 ![stream[k].ros2Streamer] = setFrameRate(@, frameRate)]
          ELSE UNCHANGED streamer
    /\ UNCHANGED <<ongoingStreams, stream, mgrOp, clock, nApi, prodOp, pwin>>

\* C18: once closeDroneStream closed a DroneStream, none of the
\* ROS2ImageStreamer objects of that stream has a timer armed or its socket
\* open, then or at any later time.
C18_NothingArmedAfterEndCall ==
    \A k \in StreamObjects :
        stream[k].created /\ stream[k].peerConnection = "null" =>
            \A s \in stream[k].made :
                streamer[s].timers = {} /\ streamer[s].readyState # "open"

\* the ROS2ImageStreamer objects of DroneStream k that have a timer armed or
\* their socket open
ActiveProducers(k) ==
    {s \in stream[k].made : streamer[s].timers # {} \/ streamer[s].readyState = "open"}

\* C22: of the ROS2ImageStreamer objects a DroneStream created at most one
\* has a timer armed or its socket open, however many track events its peer
\* connection had.
C22_OneProducerPerLink ==
    \A k \in StreamObjects : Cardinality(ActiveProducers(k)) <= 1

\* C23: while the connection state of a DroneStream's peer connection is
\* disconnected, failed or closed, none of the ROS2ImageStreamer objects of
\* the stream is streaming or has a timer armed.
C23_StoppedWhenLinkDown ==
    \A k \in StreamObjects :
        stream[k].created /\ stream[k].peerConnection = "open"
        /\ stream[k].connectionState \in {"disconnected", "failed", "closed"} =>
            \A s \in stream[k].made :
                ~streamer[s].isStreaming /\ streamer[s].timers = {}

VARIABLES
    app,                 \* the state of the App component and its socketSet variable
    socket               \* the page's WebSocket to the relay

linkVars == <<app, socket>>

\* the values of the "Drone Socket ID" input
InputIds == {""} \cup DroneIds

\* the kinds of message the drone sends back (part_001:98, 101)
MessageTypes == {"answer", "candidate"}

\* the App component after its first render (App.js:14-23) and the WebSocket
\* of its effect (lines 25-40).  shared says that DroneStreamManager.socket
\* is this socket, onmessage is the drone id the installed handler was
\* created with ("" while no handler is installed), installs counts the
\* assignments of socket.onmessage, sent is what send() was given while the
\* socket was open
LinkInit ==
    /\ app = [droneSocketID |-> "", callButtonDisabled |-> TRUE,
              hangupButtonDisabled |-> TRUE, socketSet |-> FALSE]
    /\ socket = [readyState |-> "connecting", shared |-> FALSE, onmessage |-> "",
                 installs |-> 0, sent |-> <<>>]

\* a render of the component: the function body runs again, and with it
\* "let socketSet = false" (App.js:23)
render(a) == [a EXCEPT !.socketSet = FALSE]

\* setupSocketEvent (part_001:36-49)
setupSocketEvent(sock, droneID) ==
    [sock EXCEPT !.shared = TRUE, !.onmessage = droneID, !.installs = @ + 1]

\* sendMessage (part_001:89-92) of DroneStream k: a TypeError while
\* DroneStreamManager.socket is null, the InvalidStateError of send() on a
\* connecting socket; a closing or closed socket discards the data
sendMessageTwice(sock, k, type) ==
    [threw |-> "none",
     socket |-> [sock EXCEPT !.sent = @ \o
                    << [event |-> "webrtc_msg", socketID |-> stream[k].droneSocketID,
                        type |-> type, from |-> k],
                       [event |-> "webrtc_msg", socketID |-> stream[k].droneSocketID,
                        type |-> type, from |-> k] >>]]

sendMessage(sock, k, type) ==
    IF ~sock.shared THEN [threw |-> "TypeError", socket |-> sock]
    ELSE IF sock.readyState = "connecting"
    THEN [threw |-> "InvalidStateError", socket |-> sock]
    ELSE IF sock.readyState = "open"
    THEN [threw |-> "none",
          socket |-> [sock EXCEPT !.sent = Append(@,
                         [event |-> "webrtc_msg", socketID |-> stream[k].droneSocketID,
                          type |-> type, from |-> k])]]
    ELSE [threw |-> "none", socket |-> sock]

\* startDroneStream (part_001:110-124) up to the pending createOffer
startDroneStream(st) == [st EXCEPT !.offer = "creating"]

\* handleIncomingSocketMsg (part_001:94-108).  setRemoteDescription of an
\* answer is rejected unless the signaling state is have-local-offer, and
\* addIceCandidate is rejected while there is no remote description; nobody
\* handles the rejection
handleIncomingSocketMsg(st, type) ==
    LET heard == IF st.signalingState = "have-local-offer" \/ st.remoteDescription
                 THEN [st EXCEPT !.got = @ \cup {type}]
                 ELSE st
    IN IF type = "answer"
       THEN IF st.signalingState = "have-local-offer"
            THEN [heard EXCEPT !.signalingState = "stable", !.remoteDescription = TRUE]
            ELSE heard
       ELSE IF type = "candidate"
       THEN IF st.remoteDescription
            THEN [heard EXCEPT !.candidates = @ \cup {"candidate"}]
            ELSE heard
       ELSE heard

\* wsClient.onopen (App.js:29-33)
wsOpens ==
    /\ socket.readyState = "connecting"
    /\ socket' = [socket EXCEPT !.readyState = "open"]
    /\ app' = render([app EXCEPT !.callButtonDisabled = FALSE,
                                 !.hangupButtonDisabled = TRUE])
    /\ UNCHANGED <<clientVars, producerVars>>

\* the relay goes away: wsClient.onclose (App.js:35) logs
wsCloses ==
    /\ socket.readyState \in {"connecting", "open"}
    /\ socket' = [socket EXCEPT !.readyState = "closed"]
    /\ UNCHANGED <<app, clientVars, producerVars>>

\* onChange of the input (App.js:125-127)
onDroneSocketIDChange(droneID) ==
    /\ droneID # app.droneSocketID
    /\ app' = render([app EXCEPT !.droneSocketID = droneID])
    /\ UNCHANGED <<socket, clientVars, producerVars>>

\* callOnClick (App.js:43-65), reached through the button of lines 129-136.
\* With an id it sets up the socket event unless socketSet, creates the
\* DroneStream (part_001:51-56), which takes the entry of the id, starts the
\* offer and sets the two button states, after which the component renders.
callOnClick ==
    /\ ~app.callButtonDisabled
    /\ IF app.droneSocketID = ""
       THEN UNCHANGED <<app, socket, ongoingStreams, stream, mgrOp>>
       ELSE \E k \in StreamObjects :
              /\ ~stream[k].created
              /\ \A j \in StreamObjects : ~stream[j].created => k <= j
              /\ socket' = IF app.socketSet THEN socket
                           ELSE setupSocketEvent(socket, app.droneSocketID)
              /\ stream' = [stream EXCEPT
                              ![k] = startDroneStream(NewDroneStream(TRUE, app.droneSocketID))]
              /\ ongoingStreams' = [ongoingStreams EXCEPT ![app.droneSocketID] = k]
              /\ mgrOp' = [MgrOp("create", app.droneSocketID) EXCEPT
                             !.unchanged = FALSE, !.stream = k]
              /\ app' = render([app EXCEPT !.socketSet = TRUE,
                                           !.callButtonDisabled = TRUE,
                                           !.hangupButtonDisabled = FALSE])
    /\ UNCHANGED producerVars

\* hangupOnClick (App.js:67-73), reached through the button of lines 137-145:
\* an exception of closeDroneStream leaves the handler before the setters
hangupOnClick ==
    /\ ~app.hangupButtonDisabled
    /\ closeDroneStream(app.droneSocketID)
    /\ app' = IF mgrOp'.threw = "none"
              THEN render([app EXCEPT !.hangupButtonDisabled = TRUE,
                                      !.callButtonDisabled = FALSE])
              ELSE app
    /\ UNCHANGED socket

\* the promise of createOffer (part_001:111) settles: rejected, the catch of
\* line 120 logs; resolved, line 114 calls setLocalDescription, a TypeError
\* when closeDroneStream has set peerConnection to null
offerSettles(k) ==
    /\ stream[k].offer = "creating"
    /\ \E ok \in BOOLEAN :
         stream' = [stream EXCEPT
                      ![k] = IF ok /\ @.peerConnection = "open"
                             THEN [@ EXCEPT !.offer = "applying"]
                             ELSE [@ EXCEPT !.offer = "failed", !.logged = @ + 1]]
    /\ UNCHANGED <<ongoingStreams, mgrOp, app, socket, producerVars>>

\* the promise of setLocalDescription (line 114) settles: resolved, lines
\* 117-118 read peerConnection.localDescription and call sendMessage
localDescriptionSettles(k) ==
    /\ stream[k].offer = "applying"
    /\ \E ok \in BOOLEAN :
         LET out == sendMessage(socket, k, "offer")
         IN IF ~ok \/ stream[k].peerConnection # "open"
            THEN /\ stream' = [stream EXCEPT ![k].offer = "failed", ![k].logged = @ + 1]
                 /\ UNCHANGED socket
            ELSE IF out.threw # "none"
            THEN /\ stream' = [stream EXCEPT ![k].signalingState = "have-local-offer",
                                             ![k].offer = "failed", ![k].logged = @ + 1]
                 /\ UNCHANGED socket
            ELSE /\ stream' = [stream EXCEPT ![k].signalingState = "have-local-offer",
                                             ![k].offer = "sent"]
                 /\ socket' = out.socket
    /\ UNCHANGED <<ongoingStreams, mgrOp, app, producerVars>>

\* socket.onmessage (part_001:39-48) with a webrtc_msg of the relay, which
\* carries the sender's id in data.socketID (part_002:78): the stream is
\* looked up under the id the handler was created with, data.socketID is
\* only logged; the KeyError of the lookup leaves the handler.  The record
\* holds the sender, the stream the message was applied to and the exception
\* that left the handler.
socketOnMessage(type, from) ==
    /\ socket.readyState = "open"
    /\ socket.onmessage # ""
    /\ LET found == getStreamByDroneID(socket.onmessage)
       IN /\ IF found.threw = "none" /\ found.stream # 0
             THEN stream' = [stream EXCEPT
                               ![found.stream] = handleIncomingSocketMsg(@, type)]
             ELSE UNCHANGED stream
          /\ mgrOp' = [MgrOp("message", from) EXCEPT
                         !.threw = found.threw, !.stream = found.stream]
    /\ UNCHANGED <<ongoingStreams, app, socket, producerVars>>

\* C21: every DroneStream whose peer connection is open is the one registered
\* under its drone id, so that no drone id has two open peer connections and
\* no open peer connection is left without an owner, after any sequence of
\* createDroneStream, callOnClick, closeDroneStream and hangupOnClick.
C21_OneLinkPerRemoteId ==
    \A k \in StreamObjects :
        stream[k].created /\ stream[k].peerConnection = "open" =>
            ongoingStreams[stream[k].droneSocketID] = k

\* C24: socket.onmessage of the relay socket is assigned at most once,
\* however many times callOnClick runs.
C24_SubscribedOnce == socket.installs <= 1

\* the offer envelopes the relay socket was given by DroneStream k
OffersOf(k) ==
    Cardinality({i \in 1..Len(socket.sent) :
                    socket.sent[i].from = k /\ socket.sent[i].type = "offer"})

\* what C27 says of every DroneStream in either form: an offer envelope is
\* addressed to the drone id and was sent after the offer was created and
\* applied, there are never two of them, and a chain that failed has sent
\* none and logged the failure once
OfferSentInOrder(k) ==
    /\ OffersOf(k) <= 1
    /\ \A i \in 1..Len(socket.sent) :
          socket.sent[i].from = k =>
              /\ socket.sent[i].socketID = stream[k].droneSocketID
              /\ stream[k].offer = "sent"
              /\ stream[k].signalingState = "have-local-offer" \/ stream[k].remoteDescription
    /\ stream[k].offer = "failed" => OffersOf(k) = 0 /\ stream[k].logged = 1
    /\ stream[k].offer # "failed" => stream[k].logged = 0

\* C27 as stated: startDroneStream sends exactly one offer envelope once
\* the offer is created and applied, and none when either step fails.
C27_OneOfferAfterApplied ==
    \A k \in StreamObjects :
        /\ OfferSentInOrder(k)
        /\ stream[k].offer = "sent" => OffersOf(k) = 1

\* C27 as the code has it: the one envelope is sent if the relay socket is
\* open when the offer has been applied; a closed socket drops it.
C27_OneOfferIfRelayOpen ==
    \A k \in StreamObjects :
        /\ OfferSentInOrder(k)
        /\ stream[k].offer = "sent" =>
              OffersOf(k) = 1 \/ (OffersOf(k) = 0 /\ socket.readyState = "closed")

C27_Witness ==
    \E k, j \in StreamObjects :
        /\ stream[k].offer = "sent"
        /\ OffersOf(k) = 1
        /\ stream[j].offer = "failed"
        /\ stream[j].logged = 1
        /\ OffersOf(j) = 0

\* C28: once the answer was handled, the peer connection is in the state one
\* delivery of the answer followed by the candidates leaves it in: the remote
\* description set and every candidate that was delivered added, whatever
\* the order and the number of the deliveries.
C28_SameAsInOrder ==
    \A k \in StreamObjects :
        stream[k].created /\ "answer" \in stream[k].got =>
            /\ stream[k].remoteDescription
            /\ stream[k].candidates = stream[k].got \ {"answer"}

\* a handshake message is applied to no DroneStream but the one of its sender
AppliedToSender ==
    mgrOp.op = "message" /\ mgrOp.stream # 0 =>
        stream[mgrOp.stream].droneSocketID = mgrOp.droneID

\* no exception leaves the message handler
NothingEscapes == mgrOp.op = "message" => mgrOp.threw = "none"

\* C34: a handshake message is applied only to the DroneStream whose drone id
\* is the sender id the relay put into the message, and a message that finds
\* no such DroneStream (after hangup, say) is discarded with no exception
\* leaving socket.onmessage.
C34_RoutedBySender == AppliedToSender /\ NothingEscapes

Init == RelayInit /\ ConsumerInit /\ ProducerInit /\ ClientInit /\ LinkInit

vars == <<relayVars, consumerVars, producerVars, clientVars, linkVars>>

notRelayVars == <<consumerVars, producerVars, clientVars, linkVars>>

notConsumerVars == <<relayVars, producerVars, clientVars, linkVars>>

notProducerVars == <<relayVars, consumerVars, clientVars, linkVars>>

notClientVars == <<relayVars, consumerVars, linkVars>>

notLinkVars == <<relayVars, consumerVars>>

NextRelay ==
    \/ \E s \in Sockets : connection(s) /\ UNCHANGED notRelayVars
    \/ \E s \in Sockets : onMessage(s) /\ UNCHANGED notRelayVars
    \/ \E s \in Sockets : onClose(s) /\ UNCHANGED notRelayVars

NextConsumer ==
    \/ Tick /\ UNCHANGED notConsumerVars
    \/ initialize /\ UNCHANGED notConsumerVars
    \/ setupWebSocketServer /\ UNCHANGED notConsumerVars
    \/ wsOnMessage /\ UNCHANGED notConsumerVars
    \/ publishCompressedImageFrame /\ UNCHANGED notConsumerVars
    \/ resetStats /\ UNCHANGED notConsumerVars
    \/ setPublishRate /\ UNCHANGED notConsumerVars
    \/ shutdown /\ UNCHANGED notConsumerVars

NextProducer ==
    \/ Advance /\ UNCHANGED notProducerVars
    \/ \E s \in Streamers : construct(s) /\ UNCHANGED notProducerVars
    \/ \E s \in Streamers : callConnect(s) /\ UNCHANGED notProducerVars
    \/ \E s \in Streamers : socketOpens(s) /\ UNCHANGED notProducerVars
    \/ \E s \in Streamers : socketClosing(s) /\ UNCHANGED notProducerVars
    \/ \E s \in Streamers : socketCloses(s) /\ UNCHANGED notProducerVars
    \/ \E s \in Streamers : callStartStreaming(s) /\ UNCHANGED notProducerVars
    \/ \E s \in Streamers : callStopStreaming(s) /\ UNCHANGED notProducerVars
    \/ \E s \in Streamers : callSetFrameRate(s) /\ UNCHANGED notProducerVars
    \/ \E s \in Streamers : restartFires(s) /\ UNCHANGED notProducerVars
    \/ \E s \in Streamers : callResetStats(s) /\ UNCHANGED notProducerVars
    \/ \E s \in Streamers : callDisconnect(s) /\ UNCHANGED notProducerVars
    \/ \E s \in Streamers : timerFires(s) /\ UNCHANGED notProducerVars

NextPacing ==
    \/ AdvancePunctual /\ UNCHANGED notProducerVars
    \/ \E s \in Streamers : construct(s) /\ UNCHANGED notProducerVars
    \/ \E s \in Streamers : callConnect(s) /\ UNCHANGED notProducerVars
    \/ \E s \in Streamers : socketOpens(s) /\ UNCHANGED notProducerVars
    \/ \E s \in Streamers : callStartStreaming(s) /\ UNCHANGED notProducerVars
    \/ \E s \in Streamers : timerFires(s) /\ UNCHANGED notProducerVars

NextRestart ==
    \/ Advance /\ UNCHANGED notProducerVars
    \/ \E s \in Streamers : construct(s) /\ UNCHANGED notProducerVars
    \/ \E s \in Streamers : callConnect(s) /\ UNCHANGED notProducerVars
    \/ \E s \in Streamers : socketOpens(s) /\ UNCHANGED notProducerVars
    \/ \E s \in Streamers : socketClosing(s) /\ UNCHANGED notProducerVars
    \/ \E s \in Streamers : socketCloses(s) /\ UNCHANGED notProducerVars
    \/ \E s \in Streamers : callStartStreaming(s) /\ UNCHANGED notProducerVars
    \/ \E s \in Streamers : callSetFrameRate(s) /\ UNCHANGED notProducerVars
    \/ \E s \in Streamers : restartFires(s) /\ UNCHANGED notProducerVars
    \/ \E s \in Streamers : callDisconnect(s) /\ UNCHANGED notProducerVars
    \/ \E s \in Streamers : timerFires(s) /\ UNCHANGED notProducerVars

NextRequests ==
    \/ \E s \in Streamers : construct(s) /\ UNCHANGED notProducerVars
    \/ \E s \in Streamers : callConnect(s) /\ UNCHANGED notProducerVars
    \/ \E s \in Streamers : socketOpens(s) /\ UNCHANGED notProducerVars
    \/ \E s \in Streamers : callStartStreaming(s) /\ UNCHANGED notProducerVars
    \/ \E s \in Streamers : callStopStreaming(s) /\ UNCHANGED notProducerVars
    \/ \E s \in Streamers : callSetFrameRate(s) /\ UNCHANGED notProducerVars
    \/ \E s \in Streamers : callAdjustPerformance(s) /\ UNCHANGED notProducerVars
    \/ \E s \in Streamers : restartFires(s) /\ UNCHANGED notProducerVars
    \/ \E s \in Streamers : callDisconnect(s) /\ UNCHANGED notProducerVars

NextPerformance ==
    \/ Advance /\ UNCHANGED notProducerVars
    \/ \E s \in Streamers : construct(s) /\ UNCHANGED notProducerVars
    \/ \E s \in Streamers : callConnect(s) /\ UNCHANGED notProducerVars
    \/ \E s \in Streamers : socketOpens(s) /\ UNCHANGED notProducerVars
    \/ \E s \in Streamers : callStartStreaming(s) /\ UNCHANGED notProducerVars
    \/ \E s \in Streamers : callAdjustPerformance(s) /\ UNCHANGED notProducerVars
    \/ \E s \in Streamers : restartFires(s) /\ UNCHANGED notProducerVars
    \/ \E s \in Streamers : timerFires(s) /\ UNCHANGED notProducerVars

NextClient ==
    \/ \E d \in DroneIds :
          StreamsMade < MaxStreams /\ createDroneStream(d) /\ UNCHANGED notClientVars
    \/ \E d \in DroneIds : closeDroneStream(d) /\ UNCHANGED notClientVars
    \/ \E k \in StreamObjects :
          TracksHeard(k) < MaxTracks /\ handleOnTrack(k) /\ UNCHANGED notClientVars
    \/ \E k \in StreamObjects :
          StreamersMade < MaxStreamers /\ initializeROS2Streaming(k)
          /\ UNCHANGED notClientVars
    \/ \E k \in StreamObjects, s \in Streamers : connected(k, s) /\ UNCHANGED notClientVars
    \/ \E d \in DroneIds : onRos2FrameRateChange(d) /\ UNCHANGED notClientVars
    \/ \E s \in Streamers : restartFires(s) /\ UNCHANGED <<notProducerVars>>
    \/ \E s \in Streamers : socketClosing(s) /\ UNCHANGED <<notProducerVars>>
    \/ \E s \in Streamers : socketCloses(s) /\ UNCHANGED <<notProducerVars>>

NextTracks ==
    \/ \E d \in DroneIds :
          StreamsMade < MaxStreams /\ createDroneStream(d) /\ UNCHANGED notClientVars
    \/ \E d \in DroneIds : closeDroneStream(d) /\ UNCHANGED notClientVars
    \/ \E k \in StreamObjects :
          TracksHeard(k) < MaxTrackEvents /\ handleOnTrack(k) /\ UNCHANGED notClientVars
    \/ \E k \in StreamObjects : initializeROS2Streaming(k) /\ UNCHANGED notClientVars
    \/ \E k \in StreamObjects, s \in Streamers : connected(k, s) /\ UNCHANGED notClientVars
    \/ \E k \in StreamObjects : connectionStateChanges(k) /\ UNCHANGED notClientVars
    \/ \E s \in Streamers : socketCloses(s) /\ UNCHANGED <<notProducerVars>>

NextLink ==
    \/ wsOpens /\ UNCHANGED notLinkVars
    \/ wsCloses /\ UNCHANGED notLinkVars
    \/ \E d \in InputIds : onDroneSocketIDChange(d) /\ UNCHANGED notLinkVars
    \/ callOnClick /\ UNCHANGED notLinkVars
    \/ hangupOnClick /\ UNCHANGED notLinkVars
    \/ \E d \in DroneIds : createDroneStream(d) /\ UNCHANGED notClientVars
    \/ \E k \in StreamObjects : offerSettles(k) /\ UNCHANGED notLinkVars
    \/ \E k \in StreamObjects : localDescriptionSettles(k) /\ UNCHANGED notLinkVars
    \/ \E type \in MessageTypes, from \in DroneIds :
          socketOnMessage(type, from) /\ UNCHANGED notLinkVars

SpecRelay == Init /\ [][NextRelay]_vars

SpecConsumer == Init /\ [][NextConsumer]_vars

SpecProducer == Init /\ [][NextProducer]_vars

SpecPacing == Init /\ [][NextPacing]_vars

\* the setTimeout callbacks of lines 192-194 run once their 100 ms are over
SpecRestart ==
    /\ Init
    /\ [][NextRestart]_vars
    /\ \A s \in Streamers : WF_vars(restartFires(s) /\ UNCHANGED notProducerVars)

SpecPerformance == Init /\ [][NextPerformance]_vars

SpecRequests == Init /\ [][NextRequests]_vars

SpecTracks == Init /\ [][NextTracks]_vars

SpecLink == Init /\ [][NextLink]_vars

SpecClient == Init /\ [][NextClient]_vars

====
